---- MODULE Spec2Model ----
(***************************************************************************)
(* Model of n8n_export_workflows.py: a one-shot export of the workflows of *)
(* an n8n instance.  The script lists the workflows (versioned endpoint,   *)
(* legacy endpoint as fallback), fetches the detail of every workflow that *)
(* carries an id, writes one JSON file per workflow and finally writes the *)
(* bundle of all details to two places.                                    *)
(*                                                                         *)
(* Strings that the script inspects character by character (workflow and   *)
(* file names) are sequences of code points.  Workflow ids are opaque and  *)
(* are TLA+ strings.  JSON mappings are records whose DOMAIN is the set of *)
(* keys present.  Only the files written by this run are tracked.          *)
(*                                                                         *)
(* pc is the position in the script, err the reason of a fatal exit, data  *)
(* the local of list_workflows, ret the value a function is returning,     *)
(* arg the argument of a safe_name call, files and cwdFiles the files in   *)
(* OUT_DIR and in the working directory, trace the requests answered and   *)
(* the files written so far, in order.                                     *)
(***************************************************************************)
EXTENDS Integers, Sequences, FiniteSets, TLC

VARIABLES pc, err, data, workflows, i, all_workflows_data, exported,
          files, cwdFiles, trace, arg, ret

vars == <<pc, err, data, workflows, i, all_workflows_data, exported,
          files, cwdFiles, trace, arg, ret>>

(* ------------------------------ bounds --------------------------------- *)

\* Longest listing the server answers with.
MaxWorkflows == 2

\* Longest freely composed input string of safe_name.
MaxLen == 3

(* --------------------------- program constants ------------------------- *)

\* name[:120]
MaxNameLen == 120

\* "workflow"
Workflow == <<119, 111, 114, 107, 102, 108, 111, 119>>

\* ".json"
DotJson == <<46, 106, 115, 111, 110>>

\* "n8n_data.json"
BundleFile == <<110, 56, 110, 95, 100, 97, 116, 97>> \o DotJson

\* "_"
Underscore == 95

\* " "
Space == 32

(* ------------------------------ safe_name ------------------------------ *)

\* The character class [<>:"/\\|?*\x00-\x1F] of the first re.sub.
IsIllegal(c) == c \in (0..31) \cup {60, 62, 58, 34, 47, 92, 124, 63, 42}

\* What \s matches in a str pattern, among code points below 256.
IsSpace(c) == c \in {9, 10, 11, 12, 13, 28, 29, 30, 31, 32, 133, 160}

\* re.sub(r'[<>:"/\\|?*\x00-\x1F]', "_", name)
ReplaceIllegal(s) == [k \in 1..Len(s) |-> IF IsIllegal(s[k]) THEN Underscore ELSE s[k]]

\* re.sub(r"\s+", " ", name): every maximal run of whitespace becomes one
\* space.  The characters kept are the non-whitespace ones and the first of
\* each run, which is written as a space.
CollapseSpace(s) ==
    LET keep == {k \in 1..Len(s) : ~IsSpace(s[k]) \/ k = 1 \/ ~IsSpace(s[k - 1])}
        nth(j) == CHOOSE k \in keep : Cardinality({m \in keep : m <= k}) = j
    IN  [j \in 1..Cardinality(keep) |->
            IF IsSpace(s[nth(j)]) THEN Space ELSE s[nth(j)]]

\* str.strip(): leading and trailing whitespace is removed.
Strip(s) ==
    LET solid == {k \in 1..Len(s) : ~IsSpace(s[k])}
    IN  IF solid = {} THEN <<>>
        ELSE SubSeq(s, CHOOSE k \in solid : \A m \in solid : k <= m,
                       CHOOSE k \in solid : \A m \in solid : m <= k)

\* name[:120]
Truncate(s) == IF Len(s) > MaxNameLen THEN SubSeq(s, 1, MaxNameLen) ELSE s

\* An optional string: None, or a str.
NoneArg == [isNone |-> TRUE, str |-> <<>>]
Some(s) == [isNone |-> FALSE, str |-> s]

\* name or "workflow"
OrWorkflow(name) == IF name.isNone \/ name.str = <<>> THEN Workflow ELSE name.str

safe_name(name) == Truncate(Strip(CollapseSpace(ReplaceIllegal(OrWorkflow(name)))))

(* --------------------------- JSON values -------------------------------- *)

NameAB == <<65, 47, 66>>                              \* "A/B"
NameA_B == <<65, 95, 66>>                             \* "A_B"
NameN8n == <<110, 56, 110, 95, 100, 97, 116, 97>>     \* "n8n_data"

Ids == {"", "1", "2"}
SummaryNames == {<<>>, NameAB}
DetailNames == {NameA_B, NameN8n}

\* Workflow summaries of a listing: the id may be missing.
Summaries ==
    {[name |-> n] : n \in SummaryNames}
    \cup {[id |-> x, name |-> n] : x \in Ids, n \in SummaryNames}

\* Workflow details the server may answer with for id x: the name may be missing.
DetailsOf(x) == {[id |-> x]} \cup {[id |-> x, name |-> n] : n \in DetailNames}

SummaryLists == UNION {[1..n -> Summaries] : n \in 0..MaxWorkflows}

\* A parsed listing body: a bare array, or an object with optional data/items.
NullBody == [type |-> "null", keys |-> {}, list |-> <<>>, data |-> <<>>, items |-> <<>>]
ListBody(s) == [type |-> "list", keys |-> {}, list |-> s, data |-> <<>>, items |-> <<>>]
DictBody(d, hasData, it, hasItems) ==
    [type |-> "dict",
     keys |-> (IF hasData THEN {"data"} ELSE {}) \cup (IF hasItems THEN {"items"} ELSE {}),
     list |-> <<>>,
     data |-> IF hasData THEN d ELSE <<>>,
     items |-> IF hasItems THEN it ELSE <<>>]

ListingBodies ==
    {ListBody(s) : s \in SummaryLists}
    \cup {DictBody(<<>>, FALSE, <<>>, FALSE)}
    \cup {DictBody(d, TRUE, <<>>, FALSE) : d \in SummaryLists}
    \cup {DictBody(<<>>, FALSE, it, TRUE) : it \in SummaryLists}
    \cup {DictBody(d, TRUE, it, TRUE) : d \in SummaryLists, it \in SummaryLists}

\* The contents of a written file: json.dump of one mapping, or of a list.
JsonObject(d) == [isArray |-> FALSE, items |-> <<d>>]
JsonArray(s) == [isArray |-> TRUE, items |-> s]

(* ------------------------------- api_get -------------------------------- *)

\* Status codes the server answers with.
Statuses == {200, 400, 401, 404, 500}

\* r.raise_for_status() raises for 4xx and 5xx.
RaisesForStatus(status) == status \in 400..599

\* api_get with 400 taken for "not found" instead of ending the run.
ApiGetNoneOn400(status) ==
    IF status = 401 THEN "exit"
    ELSE IF status = 400 \/ status = 404 THEN "none"
    ELSE IF RaisesForStatus(status) THEN "exit"
    ELSE "json"

\* api_get by status: "exit" (SystemExit or HTTPError, uncaught), "none"
\* (returns None) or "json" (returns r.json()).
ApiGet(status) ==
    IF status = 401 THEN "exit"
    ELSE IF status = 400 THEN "exit"
    ELSE IF status = 404 THEN "none"
    ELSE IF RaisesForStatus(status) THEN "exit"
    ELSE "json"

\* The message the run ends with when api_get does not return.
ApiGetError(status) ==
    IF status = 401 THEN "401" ELSE IF status = 400 THEN "400" ELSE "http"

(* --------------------------- events of a run ---------------------------- *)

\* A GET answered with `status`; got holds the detail returned, if any.
GetEv(endpoint, id, status, got) ==
    [kind |-> "get", endpoint |-> endpoint, id |-> id, status |-> status,
     got |-> got, dir |-> "", file |-> <<>>]

\* open(path, "w") + json.dump into directory dir ("out" is OUT_DIR, "cwd"
\* the working directory).
WriteEv(dir, file) ==
    [kind |-> "write", endpoint |-> "", id |-> "", status |-> 0,
     got |-> <<>>, dir |-> dir, file |-> file]

NoFiles == [n \in {} |-> JsonArray(<<>>)]

\* open(path, "w"): the file is created or replaced.
WriteFile(fs, file, content) ==
    [n \in DOMAIN fs \cup {file} |-> IF n = file THEN content ELSE fs[n]]

(* ---------------------------- list_workflows ---------------------------- *)

\* The extraction with presence tests in place of the `or` chain.
ExtractPresent(body) ==
    IF body.type = "list" THEN body.list
    ELSE IF "data" \in body.keys THEN body.data
    ELSE IF "items" \in body.keys THEN body.items
    ELSE <<>>

\* data.get("data") or data.get("items") or [], after the isinstance test.
Extract(body) ==
    IF body.type = "list" THEN body.list
    ELSE IF "data" \in body.keys /\ body.data # <<>> THEN body.data
    ELSE IF "items" \in body.keys /\ body.items # <<>> THEN body.items
    ELSE <<>>

\* list_workflows with `if data:` in place of `if data is not None:`: an empty
\* answer of the versioned endpoint falls through to the legacy endpoint.
ListV1FallsBackOnEmpty ==
    /\ pc = "list_v1"
    /\ \E status \in Statuses :
         \/ /\ ApiGet(status) = "exit"
            /\ pc' = "exit"
            /\ err' = ApiGetError(status)
            /\ UNCHANGED <<data, ret>>
            /\ trace' = Append(trace, GetEv("v1_list", "", status, <<>>))
         \/ /\ ApiGet(status) = "none"
            /\ pc' = "list_rest"
            /\ UNCHANGED <<err, data, ret>>
            /\ trace' = Append(trace, GetEv("v1_list", "", status, <<>>))
         \/ /\ ApiGet(status) = "json"
            /\ \E body \in ListingBodies :
                 IF body.type = "list" /\ body.list = <<>>
                 THEN pc' = "list_rest" /\ UNCHANGED <<data, ret>>
                 ELSE pc' = "list_ret" /\ data' = body /\ ret' = Extract(body)
            /\ err' = err
            /\ trace' = Append(trace, GetEv("v1_list", "", status, <<>>))
    /\ UNCHANGED <<workflows, i, all_workflows_data, exported, files, cwdFiles, arg>>

\* data = api_get("/api/v1/workflows", {"active": "true"})
ListV1 ==
    /\ pc = "list_v1"
    /\ \E status \in Statuses :
         \/ /\ ApiGet(status) = "exit"
            /\ pc' = "exit"
            /\ err' = ApiGetError(status)
            /\ UNCHANGED <<data, ret>>
            /\ trace' = Append(trace, GetEv("v1_list", "", status, <<>>))
         \/ /\ ApiGet(status) = "none"
            /\ pc' = "list_rest"
            /\ UNCHANGED <<err, data, ret>>
            /\ trace' = Append(trace, GetEv("v1_list", "", status, <<>>))
         \/ /\ ApiGet(status) = "json"
            /\ \E body \in ListingBodies : data' = body /\ ret' = Extract(body)
            /\ pc' = "list_ret"
            /\ err' = err
            /\ trace' = Append(trace, GetEv("v1_list", "", status, <<>>))
    /\ UNCHANGED <<workflows, i, all_workflows_data, exported, files, cwdFiles, arg>>

\* list_workflows returning [] instead of exiting when the legacy endpoint
\* answers 404 too.
ListRestEmptyOnNone ==
    /\ pc = "list_rest"
    /\ \E status \in Statuses :
         \/ /\ ApiGet(status) = "exit"
            /\ pc' = "exit"
            /\ err' = ApiGetError(status)
            /\ UNCHANGED <<data, ret>>
            /\ trace' = Append(trace, GetEv("rest_list", "", status, <<>>))
         \/ /\ ApiGet(status) = "none"
            /\ pc' = "list_ret"
            /\ err' = err
            /\ data' = ListBody(<<>>)
            /\ ret' = <<>>
            /\ trace' = Append(trace, GetEv("rest_list", "", status, <<>>))
         \/ /\ ApiGet(status) = "json"
            /\ \E body \in ListingBodies : data' = body /\ ret' = Extract(body)
            /\ pc' = "list_ret"
            /\ err' = err
            /\ trace' = Append(trace, GetEv("rest_list", "", status, <<>>))
    /\ UNCHANGED <<workflows, i, all_workflows_data, exported, files, cwdFiles, arg>>

\* data = api_get("/rest/workflows"); SystemExit when it is None too.
ListRest ==
    /\ pc = "list_rest"
    /\ \E status \in Statuses :
         \/ /\ ApiGet(status) = "exit"
            /\ pc' = "exit"
            /\ err' = ApiGetError(status)
            /\ UNCHANGED <<data, ret>>
            /\ trace' = Append(trace, GetEv("rest_list", "", status, <<>>))
         \/ /\ ApiGet(status) = "none"
            /\ pc' = "exit"
            /\ err' = "no_listing"
            /\ UNCHANGED <<data, ret>>
            /\ trace' = Append(trace, GetEv("rest_list", "", status, <<>>))
         \/ /\ ApiGet(status) = "json"
            /\ \E body \in ListingBodies : data' = body /\ ret' = Extract(body)
            /\ pc' = "list_ret"
            /\ err' = err
            /\ trace' = Append(trace, GetEv("rest_list", "", status, <<>>))
    /\ UNCHANGED <<workflows, i, all_workflows_data, exported, files, cwdFiles, arg>>

\* workflows = list_workflows() receives the value returned; the local data
\* goes out of scope; all_workflows_data = [], exported = 0.
ListReturn ==
    /\ pc = "list_ret"
    /\ workflows' = ret
    /\ ret' = <<>>
    /\ data' = NullBody
    /\ all_workflows_data' = <<>>
    /\ exported' = 0
    /\ i' = 1
    /\ pc' = "loop"
    /\ UNCHANGED <<err, files, cwdFiles, trace, arg>>

(* ------------------------------ export loop ----------------------------- *)

\* The test `workflow_id is None` in place of `not workflow_id`.
HasIdKey(w) == "id" \in DOMAIN w

\* The negation of `not workflow_id` for workflow_id = w.get("id").
HasId(w) == "id" \in DOMAIN w /\ w.id # ""

\* detail.get("name") or w.get("name") or "workflow"
DisplayName(detail, w) ==
    IF "name" \in DOMAIN detail /\ detail.name # <<>> THEN detail.name
    ELSE IF "name" \in DOMAIN w /\ w.name # <<>> THEN w.name
    ELSE Workflow

\* f"{safe_name(name)}.json"
FileName(name) == safe_name(Some(name)) \o DotJson

\* all_workflows_data.insert(0, detail)
BundlePrepend(bundle, detail) == <<detail>> \o bundle

\* all_workflows_data.append(detail)
BundleAppend(bundle, detail) == Append(bundle, detail)

\* The rest of an iteration once get_workflow has returned detail; evs are
\* the requests get_workflow has just made.
Persist(detail, evs) ==
    LET filename == FileName(DisplayName(detail, workflows[i])) IN
    /\ all_workflows_data' = BundleAppend(all_workflows_data, detail)
    /\ files' = WriteFile(files, filename, JsonObject(detail))
    /\ exported' = exported + 1
    /\ i' = i + 1
    /\ pc' = "loop"
    /\ trace' = trace \o evs \o <<WriteEv("out", filename)>>
    /\ UNCHANGED <<err, cwdFiles>>

\* if not workflow_id: continue
LoopSkip ==
    /\ pc = "loop"
    /\ i <= Len(workflows)
    /\ ~HasId(workflows[i])
    /\ i' = i + 1
    /\ UNCHANGED <<pc, err, data, workflows, all_workflows_data, exported,
                   files, cwdFiles, trace, arg, ret>>

\* get_workflow: data = api_get(f"/api/v1/workflows/{workflow_id}")
GetV1 ==
    /\ pc = "loop"
    /\ i <= Len(workflows)
    /\ HasId(workflows[i])
    /\ \E status \in Statuses :
         LET id == workflows[i].id IN
         \/ /\ ApiGet(status) = "exit"
            /\ pc' = "exit"
            /\ err' = ApiGetError(status)
            /\ trace' = Append(trace, GetEv("v1_detail", id, status, <<>>))
            /\ UNCHANGED <<i, all_workflows_data, exported, files, cwdFiles>>
         \/ /\ ApiGet(status) = "none"
            /\ pc' = "get_rest"
            /\ trace' = Append(trace, GetEv("v1_detail", id, status, <<>>))
            /\ UNCHANGED <<err, i, all_workflows_data, exported, files, cwdFiles>>
         \/ /\ ApiGet(status) = "json"
            /\ \E detail \in DetailsOf(id) :
                 Persist(detail, <<GetEv("v1_detail", id, status, <<detail>>)>>)
    /\ UNCHANGED <<data, workflows, arg, ret>>

\* get_workflow giving up on the workflow, and the loop going on, when the
\* legacy endpoint answers 404 too.
GetRestSkipsOnNone ==
    /\ pc = "get_rest"
    /\ \E status \in Statuses :
         LET id == workflows[i].id IN
         \/ /\ ApiGet(status) = "exit"
            /\ pc' = "exit"
            /\ err' = ApiGetError(status)
            /\ trace' = Append(trace, GetEv("rest_detail", id, status, <<>>))
            /\ UNCHANGED <<i, all_workflows_data, exported, files, cwdFiles>>
         \/ /\ ApiGet(status) = "none"
            /\ pc' = "loop"
            /\ i' = i + 1
            /\ trace' = Append(trace, GetEv("rest_detail", id, status, <<>>))
            /\ UNCHANGED <<err, all_workflows_data, exported, files, cwdFiles>>
         \/ /\ ApiGet(status) = "json"
            /\ \E detail \in DetailsOf(id) :
                 Persist(detail, <<GetEv("rest_detail", id, status, <<detail>>)>>)
    /\ UNCHANGED <<data, workflows, arg, ret>>

\* get_workflow: data = api_get(f"/rest/workflows/{workflow_id}"); SystemExit
\* when it is None too.
GetRest ==
    /\ pc = "get_rest"
    /\ \E status \in Statuses :
         LET id == workflows[i].id IN
         \/ /\ ApiGet(status) = "exit"
            /\ pc' = "exit"
            /\ err' = ApiGetError(status)
            /\ trace' = Append(trace, GetEv("rest_detail", id, status, <<>>))
            /\ UNCHANGED <<i, all_workflows_data, exported, files, cwdFiles>>
         \/ /\ ApiGet(status) = "none"
            /\ pc' = "exit"
            /\ err' = "no_workflow"
            /\ trace' = Append(trace, GetEv("rest_detail", id, status, <<>>))
            /\ UNCHANGED <<i, all_workflows_data, exported, files, cwdFiles>>
         \/ /\ ApiGet(status) = "json"
            /\ \E detail \in DetailsOf(id) :
                 Persist(detail, <<GetEv("rest_detail", id, status, <<detail>>)>>)
    /\ UNCHANGED <<data, workflows, arg, ret>>

\* After the loop: json.dump(all_workflows_data) to OUT_DIR/n8n_data.json.
WriteBundle ==
    /\ pc = "loop"
    /\ i > Len(workflows)
    /\ files' = WriteFile(files, BundleFile, JsonArray(all_workflows_data))
    /\ trace' = Append(trace, WriteEv("out", BundleFile))
    /\ pc' = "root_bundle"
    /\ UNCHANGED <<err, data, workflows, i, all_workflows_data, exported,
                   cwdFiles, arg, ret>>

\* json.dump(all_workflows_data) to n8n_data.json in the working directory,
\* then the final prints.
WriteRootBundle ==
    /\ pc = "root_bundle"
    /\ cwdFiles' = WriteFile(cwdFiles, BundleFile, JsonArray(all_workflows_data))
    /\ trace' = Append(trace, WriteEv("cwd", BundleFile))
    /\ pc' = "done"
    /\ UNCHANGED <<err, data, workflows, i, all_workflows_data, exported,
                   files, arg, ret>>

\* The state once the configuration is loaded and OUT_DIR exists.
Init ==
    /\ pc = "list_v1"
    /\ err = ""
    /\ data = NullBody
    /\ workflows = <<>>
    /\ i = 1
    /\ all_workflows_data = <<>>
    /\ exported = 0
    /\ files = NoFiles
    /\ cwdFiles = NoFiles
    /\ trace = <<>>
    /\ arg = NoneArg
    /\ ret = <<>>

Next ==
    \/ ListV1
    \/ ListRest
    \/ ListReturn
    \/ LoopSkip
    \/ GetV1
    \/ GetRest
    \/ WriteBundle
    \/ WriteRootBundle

Spec == Init /\ [][Next]_vars

(* ------------------------- safe_name on its own ------------------------- *)

Alphabet == {9, 32, 47, 97, 160}

\* n copies of "a"
Filler(n) == [k \in 1..n |-> 97]

ShortStrings == UNION {[1..n -> Alphabet] : n \in 0..MaxLen}

\* Inputs around the truncation point: a filler followed by two characters.
LongStrings ==
    {Filler(n) \o s : n \in (MaxNameLen - 2)..MaxNameLen, s \in [1..2 -> Alphabet]}

SafeNameInputs == {NoneArg} \cup {Some(s) : s \in ShortStrings \cup LongStrings}

InitSafeName ==
    /\ pc = "safe_name_call"
    /\ err = ""
    /\ data = NullBody
    /\ workflows = <<>>
    /\ i = 1
    /\ all_workflows_data = <<>>
    /\ exported = 0
    /\ files = NoFiles
    /\ cwdFiles = NoFiles
    /\ trace = <<>>
    /\ arg \in SafeNameInputs
    /\ ret = <<>>

SafeNameCall ==
    /\ pc = "safe_name_call"
    /\ ret' = safe_name(arg)
    /\ pc' = "safe_name_ret"
    /\ UNCHANGED <<err, data, workflows, i, all_workflows_data, exported,
                   files, cwdFiles, trace, arg>>

NextSafeName == SafeNameCall

SpecSafeName == InitSafeName /\ [][NextSafeName]_vars

(* ================================ claims ================================ *)

\* A request answered with a detail (get_workflow returned it).
IsFetch(e) == e.kind = "get" /\ e.got # <<>>

IsWrite(e) == e.kind = "write"

IsV1DetailGet(e) == e.kind = "get" /\ e.endpoint = "v1_detail"

\* A summary that carries an identifier: the id is present and not empty.
CarriesId(w) == "id" \in DOMAIN w /\ w.id # ""

\* The statuses that end the run: every non-success status except 404.
IsFatalStatus(status) == status \notin 200..299 /\ status # 404

Fetches == SelectSeq(trace, IsFetch)

\* C1: for every input of safe_name (None, the empty string, whitespace only
\* and illegal characters only included) the result holds none of <>:"/\|?*
\* and no ASCII control character, holds no two adjacent whitespace
\* characters, is at most 120 long and is not empty; it is "workflow" for an
\* empty or absent input.
C1_SafeNameContract ==
    pc = "safe_name_ret" =>
        /\ \A k \in 1..Len(ret) :
              /\ ret[k] \notin {60, 62, 58, 34, 47, 92, 124, 63, 42}
              /\ ret[k] \notin 0..31
              /\ ret[k] # 127
        /\ \A k \in 1..(Len(ret) - 1) : ~(IsSpace(ret[k]) /\ IsSpace(ret[k + 1]))
        /\ Len(ret) <= MaxNameLen
        /\ ret # <<>>
        /\ (arg.isNone \/ arg.str = <<>>) => ret = Workflow

\* C2: when the run completes, OUT_DIR/n8n_data.json is the array of the
\* details get_workflow returned, one per summary that carries an id, in the
\* order of the listing, and n8n_data.json in the working directory has the
\* same content.
C2_BundleIsFetchSequence ==
    pc = "done" =>
        LET withId == SelectSeq(workflows, CarriesId) IN
        /\ Len(Fetches) = Len(withId)
        /\ \A k \in 1..Len(Fetches) : Fetches[k].id = withId[k].id
        /\ BundleFile \in DOMAIN files
        /\ files[BundleFile] = JsonArray([k \in 1..Len(Fetches) |-> Fetches[k].got[1]])
        /\ BundleFile \in DOMAIN cwdFiles
        /\ cwdFiles[BundleFile] = files[BundleFile]

\* C2 witness: a completed run that exported two workflows with different
\* details.
C2_Witness ==
    /\ pc = "done"
    /\ Len(all_workflows_data) = 2
    /\ all_workflows_data[1] # all_workflows_data[2]

\* C3: summaries whose id is missing or empty produce nothing: in the loop and
\* after it, the exported count, the bundle length, the number of detail
\* requests to the versioned endpoint and the number of per-workflow files
\* written all equal the number of summaries passed that carry an id, and no
\* detail request is made for an empty id; at the end every summary is passed.
C3_SkippedProduceNothing ==
    pc \in {"loop", "root_bundle", "done"} =>
        LET n == Len(SelectSeq(SubSeq(workflows, 1, i - 1), CarriesId))
            bundles == IF pc = "loop" THEN 0 ELSE IF pc = "root_bundle" THEN 1 ELSE 2
        IN
        /\ exported = n
        /\ Len(all_workflows_data) = n
        /\ Len(SelectSeq(trace, IsV1DetailGet)) = n
        /\ Len(SelectSeq(trace, IsWrite)) = n + bundles
        /\ \A k \in 1..Len(trace) :
              trace[k].endpoint \in {"v1_detail", "rest_detail"} => trace[k].id # ""
        /\ pc # "loop" => i = Len(workflows) + 1

\* C3 witness: a completed run whose listing held a summary without a usable
\* id and an exported one.
C3_Witness ==
    /\ pc = "done"
    /\ exported >= 1
    /\ \E j \in 1..Len(workflows) : ~CarriesId(workflows[j])

\* Both listing endpoints answered 404.
BothListingsNotFound ==
    /\ Len(trace) >= 2
    /\ trace[1].endpoint = "v1_list" /\ trace[1].status = 404
    /\ trace[2].endpoint = "rest_list" /\ trace[2].status = 404

\* C4: when both listing endpoints answer 404 the run ends with a fatal error
\* and has written no file: no per-workflow file and neither bundle.
C4_NoListingNoFiles ==
    BothListingsNotFound =>
        /\ pc = "exit"
        /\ err = "no_listing"
        /\ DOMAIN files = {}
        /\ DOMAIN cwdFiles = {}
        /\ Len(trace) = 2

\* C4 witness: both listing endpoints have answered 404.
C4_Witness == BothListingsNotFound /\ pc = "exit"

\* The sequence a listing body stands for: the body itself when it is an
\* array, else its data field when that holds something, else its items field
\* when that holds something, else the empty sequence.
ListingSequence(body) ==
    IF body.type = "list" THEN body.list
    ELSE IF "data" \in body.keys /\ Len(body.data) > 0 THEN body.data
    ELSE IF "items" \in body.keys /\ Len(body.items) > 0 THEN body.items
    ELSE <<>>

\* C5: the legacy listing endpoint is requested only as the second request,
\* right after the versioned listing endpoint answered 404, hence at most
\* once; once the versioned one has answered 404 and list_workflows has moved
\* on, the legacy one has been requested; list_workflows then returns the
\* sequence of the legacy response.  After any other answer of the versioned
\* endpoint the legacy one is never requested.
C5_LegacyListingOnlyAfter404 ==
    /\ \A k \in 1..Len(trace) :
          trace[k].endpoint = "rest_list" =>
              /\ k = 2
              /\ trace[1].endpoint = "v1_list"
              /\ trace[1].status = 404
    /\ (trace # <<>> /\ trace[1].status = 404 /\ pc # "list_rest") =>
          Len(trace) >= 2 /\ trace[2].endpoint = "rest_list"
    /\ (trace # <<>> /\ trace[1].status # 404) =>
          \A k \in 1..Len(trace) : trace[k].endpoint # "rest_list"
    /\ (pc = "list_ret" /\ Len(trace) = 2) =>
          /\ trace[2].endpoint = "rest_list"
          /\ trace[2].status = 200
          /\ ret = ListingSequence(data)

\* C5 witness: list_workflows returns a non-empty listing obtained from the
\* legacy endpoint.
C5_Witness ==
    /\ pc = "list_ret"
    /\ Len(trace) = 2
    /\ trace[2].endpoint = "rest_list"
    /\ ret # <<>>

\* The reading of C6 as stated: the data field whenever it is present, else
\* the items field whenever it is present.
PresentFieldSequence(body) ==
    IF body.type = "list" THEN body.list
    ELSE IF "data" \in body.keys THEN body.data
    ELSE IF "items" \in body.keys THEN body.items
    ELSE <<>>

\* C6 as stated: list_workflows returns the body itself when it is an array,
\* otherwise the value of its data field, otherwise the value of its items
\* field, otherwise the empty sequence.
C6_Original == pc = "list_ret" => ret = PresentFieldSequence(data)

\* C6 amended: list_workflows returns the body itself when it is an array;
\* otherwise its data field when that is present and not empty; otherwise its
\* items field when that is present and not empty; otherwise the empty
\* sequence.  The same holds for either listing endpoint.
C6_Amended ==
    pc = "list_ret" =>
        /\ data.type \in {"list", "dict"}
        /\ data.type = "list" => ret = data.list
        /\ (data.type = "dict" /\ "data" \in data.keys /\ data.data # <<>>) =>
              ret = data.data
        /\ (data.type = "dict" /\ ("data" \notin data.keys \/ data.data = <<>>)
               /\ "items" \in data.keys /\ data.items # <<>>) =>
              ret = data.items
        /\ (data.type = "dict" /\ ("data" \notin data.keys \/ data.data = <<>>)
               /\ ("items" \notin data.keys \/ data.items = <<>>)) =>
              ret = <<>>

\* C6 witness: the legacy endpoint answered an object whose data field is an
\* empty array and whose items field holds summaries; list_workflows returns
\* the items.
C6_Witness ==
    /\ pc = "list_ret"
    /\ Len(trace) = 2
    /\ data.type = "dict"
    /\ data.keys = {"data", "items"}
    /\ data.data = <<>>
    /\ data.items # <<>>
    /\ ret = data.items

\* C7: when the run halts on a fatal error inside the export loop, no bundle
\* file has been written, whatever the names of the workflows exported before:
\* OUT_DIR/n8n_data.json does not exist and neither does n8n_data.json in the
\* working directory.
C7_NoBundleOnFatalInLoop ==
    (pc = "exit" /\ trace[Len(trace)].endpoint \in {"v1_detail", "rest_detail"}) =>
        /\ BundleFile \notin DOMAIN files
        /\ BundleFile \notin DOMAIN cwdFiles

ClaimDisplayName(detail, w) ==
    IF "name" \in DOMAIN detail /\ detail.name # <<>> THEN detail.name
    ELSE IF "name" \in DOMAIN w /\ w.name # <<>> THEN w.name
    ELSE Workflow

\* C9: when the run completes, every file <safe-name>.json that an exported
\* workflow produced holds the detail of the last workflow, in the order of
\* the listing, whose sanitized display name is that name.
C9_LastWriteWins ==
    pc = "done" =>
        LET withId == SelectSeq(workflows, CarriesId)
            fileOf(k) ==
                safe_name(Some(ClaimDisplayName(Fetches[k].got[1], withId[k]))) \o DotJson
        IN
        \A k \in 1..Len(Fetches) :
            LET last == CHOOSE m \in 1..Len(Fetches) :
                            /\ fileOf(m) = fileOf(k)
                            /\ \A q \in 1..Len(Fetches) : fileOf(q) = fileOf(k) => q <= m
            IN
            /\ fileOf(k) \in DOMAIN files
            /\ files[fileOf(k)] = JsonObject(Fetches[last].got[1])

\* C10: a legacy detail request directly follows a versioned detail request
\* for the same id that answered 404; a detail answered by the versioned
\* endpoint is returned and followed by the file write, not by a legacy
\* request; the details returned are the bundle entries; when both answer 404
\* the run ends with a fatal error and the workflow leaves no file and no
\* bundle entry.
C10_DetailFallback ==
    /\ \A k \in 1..Len(trace) :
          /\ trace[k].endpoint = "rest_detail" =>
                /\ k > 1
                /\ trace[k - 1].endpoint = "v1_detail"
                /\ trace[k - 1].id = trace[k].id
                /\ trace[k - 1].status = 404
          /\ (trace[k].endpoint = "v1_detail" /\ trace[k].status = 404
                 /\ (k < Len(trace) \/ pc # "get_rest")) =>
                /\ k < Len(trace)
                /\ trace[k + 1].endpoint = "rest_detail"
          /\ (trace[k].endpoint \in {"v1_detail", "rest_detail"}
                 /\ trace[k].status = 200) =>
                /\ trace[k].got # <<>>
                /\ k < Len(trace)
                /\ trace[k + 1].kind = "write"
          /\ (trace[k].endpoint = "rest_detail" /\ trace[k].status = 404) =>
                /\ k = Len(trace)
                /\ pc = "exit"
                /\ err = "no_workflow"
    /\ Len(all_workflows_data) = Len(Fetches)
    /\ \A k \in 1..Len(Fetches) : all_workflows_data[k] = Fetches[k].got[1]
    /\ pc \in {"loop", "get_rest", "exit"} =>
          Len(SelectSeq(trace, IsWrite)) = Len(Fetches)

\* C10 witness: after one workflow was exported, both detail endpoints
\* answered 404 for the next one.
C10_Witness ==
    /\ pc = "exit"
    /\ err = "no_workflow"
    /\ exported >= 1

====
